---- MODULE Spec2Model ----
(***************************************************************************)
(* Model of the Hynews news aggregation pipeline: the three source         *)
(* adapters (Daily Star scraper, Ittefaq client, Prothom Alo client) and   *)
(* the Daily Star image extractor.                                         *)
(*                                                                         *)
(* Strings are sequences of lexical tokens.  Every Python string operation *)
(* the code uses (startswith, in, strip, split, lower, concatenation) is   *)
(* the corresponding sequence operation; the markers the code searches for *)
(* ("http", "//", "/big_", the image hosts) are token sequences.           *)
(***************************************************************************)
EXTENDS Integers, Sequences, FiniteSets, TLC

VARIABLES
    adapter,     \* which source adapter serves the fetchLatest invocation
    limit,       \* the limit argument: [given, k]
    upstream,    \* the upstream's answer to the discovery call
    pc,          \* position of the invocation
    items,       \* discovered items, after truncation, as first emitted
    out,         \* the list being returned
    log,         \* outcome of the detail/body call of each processed item
    firstRun,    \* what the first of two invocations on the same answers returned
    replay,      \* the answers the first invocation got to its article requests
    net,         \* the network calls the invocation has issued, in order
    imgInput,    \* input of one image-field computation
    imgResult,   \* its result: [state, raised, url, path]
    lxmlTruth,   \* truth value lxml gives a childless element
    request,     \* the summary request: [source, cache]
    collab,      \* how the collaborators of the summary request behave
    cacheTable,  \* rows of the daily_summaries table
    sumPc,       \* position of the summary handler
    calls,       \* collaborator calls the handler has made
    newsItems,   \* the articles the handler fetched
    response     \* the handler's answer: [status, body]

vars ==
    <<adapter, limit, upstream, pc, items, out, log, firstRun, replay, net,
      imgInput, imgResult, lxmlTruth,
      request, collab, cacheTable, sumPc, calls, newsItems, response>>

pipeVars == <<adapter, limit, upstream, pc, items, out, log, firstRun, replay, net>>
imgVars == <<imgInput, imgResult>>
sumVars == <<request, collab, cacheTable, sumPc, calls, newsItems, response>>

----------------------------------------------------------------------------
(* Bounds *)

MaxItems == 2
MaxLimit == 2
MaxPictures == 2

----------------------------------------------------------------------------
(* Strings *)

\* Python None where a string is expected (a missing attribute or key).
None == <<"<None>">>

\* truthiness of an optional string: neither None nor ""
Truthy(s) == s # None /\ s # <<>>

StartsWith(s, p) == Len(s) >= Len(p) /\ SubSeq(s, 1, Len(p)) = p

Contains(s, p) == \E i \in 1..(Len(s) - Len(p) + 1) : SubSeq(s, i, i + Len(p) - 1) = p

LowerTok(t) ==
    CASE t = "TDS-IMAGES-BN.THEDAILYSTAR.NET" -> "tds-images-bn.thedailystar.net"
      [] t = "HTTP" -> "http"
      [] t = "Daily" -> "daily"
      [] t = "Star" -> "star"
      [] t = "ITTEFAQ" -> "ittefaq"
      [] t = "ON" -> "on"
      [] OTHER -> t

Lower(s) == [i \in 1..Len(s) |-> LowerTok(s[i])]

SetMin(S) == CHOOSE x \in S : \A y \in S : x <= y
SetMax(S) == CHOOSE x \in S : \A y \in S : x >= y

Strip(s) ==
    LET keep == {i \in 1..Len(s) : s[i] # " "}
    IN  IF keep = {} THEN <<>> ELSE SubSeq(s, SetMin(keep), SetMax(keep))

LStrip(s, tok) ==
    LET keep == {i \in 1..Len(s) : s[i] # tok}
    IN  IF keep = {} THEN <<>> ELSE SubSeq(s, SetMin(keep), Len(s))

\* the part of s before the first token in toks (all of s if there is none)
TakeUntil(s, toks) ==
    LET hits == {i \in 1..Len(s) : s[i] \in toks}
    IN  IF hits = {} THEN s ELSE SubSeq(s, 1, SetMin(hits) - 1)

\* str.split()[0]: the first whitespace-separated word; <<>> stands for IndexError
FirstWord(s) == TakeUntil(Strip(s), {" "})

----------------------------------------------------------------------------
(* URLs *)

HTTP == <<"http">>
HTTPS_COLON == <<"http", "s", ":">>
SLASH == <<"/">>
SLASH2 == <<"/", "/">>

Https(host, path) == HTTPS_COLON \o SLASH2 \o <<host>> \o path

BASE_URL == Https("www.thedailystar.net", <<>>)

HasScheme(u) == StartsWith(u, <<"http", ":">>) \/ StartsWith(u, HTTPS_COLON)

\* urllib.parse.urljoin against a base that is scheme://host with no path
urljoin(base, ref) ==
    IF ref = <<>> THEN base
    ELSE IF HasScheme(ref) THEN ref
    ELSE IF StartsWith(ref, SLASH2) THEN HTTPS_COLON \o ref
    ELSE IF StartsWith(ref, SLASH) THEN base \o ref
    ELSE base \o SLASH \o ref

\* PrimaryToAbsolute returning a bare relative path as it is
PrimaryToAbsolute_NoJoin(image_url) ==
    IF StartsWith(image_url, HTTP) THEN image_url
    ELSE IF StartsWith(image_url, SLASH2) THEN HTTPS_COLON \o image_url
    ELSE IF StartsWith(image_url, SLASH) THEN urljoin(BASE_URL, image_url)
    ELSE image_url

\* the conversion to an absolute URL applied to the hero element's data-src
PrimaryToAbsolute(image_url) ==
    IF StartsWith(image_url, HTTP) THEN image_url
    ELSE IF StartsWith(image_url, SLASH2) THEN HTTPS_COLON \o image_url
    ELSE IF StartsWith(image_url, SLASH) THEN urljoin(BASE_URL, image_url)
    ELSE urljoin(BASE_URL, SLASH \o image_url)

\* SrcsetToAbsolute leaving a relative URL as it is
SrcsetToAbsolute_NoJoin(first_url) ==
    IF StartsWith(first_url, HTTP) THEN first_url
    ELSE IF StartsWith(first_url, SLASH2) THEN HTTPS_COLON \o first_url
    ELSE IF StartsWith(first_url, SLASH) THEN urljoin(BASE_URL, first_url)
    ELSE first_url

\* the conversion to an absolute URL applied to the first URL of a srcset
SrcsetToAbsolute(first_url) ==
    IF StartsWith(first_url, HTTP) THEN first_url
    ELSE IF StartsWith(first_url, SLASH2) THEN HTTPS_COLON \o first_url
    ELSE IF StartsWith(first_url, SLASH) THEN urljoin(BASE_URL, first_url)
    ELSE urljoin(BASE_URL, SLASH \o first_url)

----------------------------------------------------------------------------
(* Image extractor (Daily Star article pages) *)

CONTENT_HOST == <<"tds-images.thedailystar.net">>
BN_HOST == <<"tds-images-bn.thedailystar.net">>
AUTHOR == <<"author">>
SMALL == <<"/", "small_">>
BIG == <<"/", "big_">>

\* a <source> or <img> element: both are void elements and have no children
Elem(srcset, data_srcset, src, lazy) ==
    [srcset |-> srcset, data_srcset |-> data_srcset, src |-> src, data_src |-> None,
     lazy |-> lazy, children |-> <<>>]

NoElem == [found |-> FALSE, elem |-> Elem(None, None, None, FALSE)]

\* the first element of a result list, if any
First(s) == IF s = <<>> THEN NoElem ELSE [found |-> TRUE, elem |-> s[1]]

\* element.get("srcset") or element.get("data-srcset")
SrcsetOf(e) == IF Truthy(e.srcset) THEN e.srcset ELSE e.data_srcset

\* the xpath predicate [@srcset or @data-srcset]: the attribute exists
HasSrcsetAttr(e) == e.srcset # None \/ e.data_srcset # None

AllElements(p) == p.sources \o p.imgs

\* the branch of the classification loop one lower-cased expression takes
ClassOfLower(srcset_lower) ==
    IF Contains(srcset_lower, CONTENT_HOST)
    THEN IF ~Contains(srcset_lower, AUTHOR) /\ ~Contains(srcset_lower, SMALL)
         THEN "article"
         ELSE "author"
    ELSE IF Contains(srcset_lower, BN_HOST) THEN "bn"
    ELSE "other"

\* an element without expression is passed over
ClassOfExpr(srcset_attr) ==
    IF ~Truthy(srcset_attr) THEN "other" ELSE ClassOfLower(Lower(srcset_attr))

Classes(all_elements) ==
    {ClassOfExpr(SrcsetOf(all_elements[i])) : i \in 1..Len(all_elements)}

\* the flags after the loop, and the pair returned
Verdict(classes) ==
    [is_article_image |-> "article" \in classes,
     skip_image |-> "bn" \in classes \/ ("author" \in classes /\ "article" \notin classes)]

_is_valid_article_image(p) == Verdict(Classes(AllElements(p)))

HasBigMarker(e) == Truthy(SrcsetOf(e)) /\ Contains(Lower(SrcsetOf(e)), BIG)

\* only the <source> elements of the picture are scanned
_get_image_priority(p) ==
    IF \E i \in 1..Len(p.sources) : HasBigMarker(p.sources[i]) THEN 0 ELSE 1

_find_source_tag(p) == First(SelectSeq(p.sources, LAMBDA e : Truthy(SrcsetOf(e))))

_find_img_tag(p) == First(SelectSeq(p.imgs, LAMBDA e : Truthy(SrcsetOf(e))))

\* the first of the two tests alone
Appended_SkipOnly(c) == ~(c.skip_image /\ ~c.is_article_image)

\* the two tests on the pair before candidate_pictures.append
Appended(c) ==
    /\ ~(c.skip_image /\ ~c.is_article_image)
    /\ c.is_article_image

IsCandidate(p) == Appended(_is_valid_article_image(p))

Indices(s) == [i \in 1..Len(s) |-> i]

\* the stable sort on priority, over indices in document order
ByPriority(pictures, cand) ==
    SelectSeq(cand, LAMBDA i : _get_image_priority(pictures[i]) = 0)
    \o SelectSeq(cand, LAMBDA i : _get_image_priority(pictures[i]) = 1)

\* candidate_pictures after the sort
SortedCandidates(pictures) ==
    ByPriority(pictures, SelectSeq(Indices(pictures), LAMBDA i : IsCandidate(pictures[i])))

\* the element one candidate yields: its first source with an expression,
\* else its first img with one
CandidateElem(p) ==
    IF _find_source_tag(p).found THEN _find_source_tag(p) ELSE _find_img_tag(p)

FirstYield(pictures, yielding) ==
    IF yielding = <<>> THEN NoElem ELSE CandidateElem(pictures[yielding[1]])

_find_image_with_bs4(pictures) ==
    FirstYield(pictures,
               SelectSeq(SortedCandidates(pictures),
                         LAMBDA i : CandidateElem(pictures[i]).found))

\* bool(element) in lxml: an element without children is false while
\* lxmlTruth = "len" (lxml announces "always" for a later version)
LxmlBool(e, mode) == e.found /\ (mode = "always" \/ Len(e.elem.children) > 0)

\* the element taken from the first XPath result: its first source with the
\* attribute, else its first img with it
XPathIn(picture_results, image_elem) ==
    IF picture_results = <<>> THEN image_elem
    ELSE IF First(SelectSeq(picture_results[1].sources, HasSrcsetAttr)).found
    THEN First(SelectSeq(picture_results[1].sources, HasSrcsetAttr))
    ELSE IF First(SelectSeq(picture_results[1].imgs, HasSrcsetAttr)).found
    THEN First(SelectSeq(picture_results[1].imgs, HasSrcsetAttr))
    ELSE image_elem

\* the XPath fallback: first picture under .lg-gallery holding an img.lazyloaded
XPathFallback(pictures, image_elem) ==
    XPathIn(SelectSeq(pictures,
                      LAMBDA p : p.inGallery /\ \E i \in 1..Len(p.imgs) : p.imgs[i].lazy),
            image_elem)

Url(u) == [raised |-> FALSE, url |-> u]
Raised == [raised |-> TRUE, url |-> <<>>]

\* the first URL of a stripped srcset expression;
\* split(",")[0].strip().split()[0]: IndexError when nothing precedes the comma
FirstUrl(src_attr) ==
    IF Contains(src_attr, <<",">>)
    THEN IF Strip(TakeUntil(src_attr, {","})) = <<>> THEN Raised
         ELSE Url(FirstWord(TakeUntil(src_attr, {","})))
    ELSE IF Contains(src_attr, <<" ">>) THEN Url(FirstWord(src_attr))
    ELSE Url(src_attr)

\* the first truthy one of srcset, data-srcset, src, data-src
FirstAttr(e) ==
    IF Truthy(e.srcset) THEN e.srcset
    ELSE IF Truthy(e.data_srcset) THEN e.data_srcset
    ELSE IF Truthy(e.src) THEN e.src
    ELSE IF Truthy(e.data_src) THEN e.data_src
    ELSE None

\* no attribute, or a blank one, gives ""
UrlOfAttr(src_attr) ==
    IF src_attr = None \/ Strip(src_attr) = <<>> THEN Url(<<>>)
    ELSE IF FirstUrl(Strip(src_attr)).raised THEN Raised
    ELSE Url(SrcsetToAbsolute(FirstUrl(Strip(src_attr)).url))

_extract_url_from_element(e) == UrlOfAttr(FirstAttr(e))

ImgOut(raised, url, path) == [state |-> "done", raised |-> raised, url |-> url, path |-> path]

\* the site-logo check on the extracted URL
Checked(r, via) ==
    IF r.raised THEN ImgOut(TRUE, <<>>, via)
    ELSE IF Truthy(r.url) /\ Contains(Lower(r.url), BN_HOST) THEN ImgOut(FALSE, <<>>, via)
    ELSE ImgOut(FALSE, r.url, via)

\* the second "if not image_elem" and what follows it
FromElement(image_elem, via, mode) ==
    IF ~LxmlBool(image_elem, mode) THEN ImgOut(FALSE, <<>>, "none")
    ELSE Checked(_extract_url_from_element(image_elem.elem), via)

\* the first "if not image_elem": the XPath fallback replaces a false element
FromPictures(pictures, bs4, mode) ==
    IF LxmlBool(bs4, mode) THEN FromElement(bs4, "scan", mode)
    ELSE FromElement(XPathFallback(pictures, bs4), "fallback", mode)

\* ImageExtractor.extract_image_url; path records which branch produced the result
extract_image_url(doc, mode) ==
    IF doc.hero.present /\ Truthy(doc.hero.data_src) /\ Strip(doc.hero.data_src) # <<>>
    THEN ImgOut(FALSE, PrimaryToAbsolute(Strip(doc.hero.data_src)), "primary")
    ELSE FromPictures(doc.pictures, _find_image_with_bs4(doc.pictures), mode)

----------------------------------------------------------------------------
(* Image fields of the two API-backed adapters *)

IMAGE_CDN_BASE == Https("cdn.ittefaqbd.com", <<"/", "contents", "/", "cache", "/", "images">>)
image_dimensions == <<"1100x618x1">>
IMAGE_BASE_URL == Https("images.assettype.com", SLASH)

\* _extract_image keeping the leading slashes of the path
_extract_image_KeepSlashes(ari) ==
    IF ari.kind = "path" /\ ari.path # <<>>
    THEN IMAGE_CDN_BASE \o SLASH \o image_dimensions \o <<"/", "uploads", "/">> \o ari.path
    ELSE <<>>

\* IttefaqClient._extract_image on the span[data-ari] of one listing entry.
\* ari.kind: "nospan", "empty" (attribute ""), "badjson", "nonobject",
\* "nopath", "pathnum" (path is a number), "path" (path is the string ari.path)
_extract_image(ari) ==
    IF ari.kind = "path" /\ ari.path # <<>>
    THEN IMAGE_CDN_BASE \o SLASH \o image_dimensions \o <<"/", "uploads", "/">>
         \o LStrip(ari.path, "/")
    ELSE <<>>

\* image_url of ProthomAloClient._transform_items
HeroImageUrl(hero_key) == IF Truthy(hero_key) THEN IMAGE_BASE_URL \o hero_key ELSE <<>>

----------------------------------------------------------------------------
(* Publish time of the Prothom Alo client *)

\* A published-at value.  kind is the JSON type: "int", "float" (a float with
\* an integral value), "bool", "str", "none" (the key is absent or null).  A
\* number of milliseconds is held as whole hours plus the milliseconds left,
\* hours * 3600000 + ms, so that every part fits 32 bits.
Stamp(kind, hours, ms) == [kind |-> kind, hours |-> hours, ms |-> ms]

\* a number below 100 written with two digits
Pad2(n) ==
    LET Digit == <<"0", "1", "2", "3", "4", "5", "6", "7", "8", "9">>
    IN  <<Digit[(n \div 10) + 1], Digit[(n % 10) + 1]>>

\* year, month and day of the day that lies `days` days after 1970-01-01 in
\* the proleptic Gregorian calendar
CivilFromDays(days) ==
    LET z == days + 719468
        era == z \div 146097
        doe == z - era * 146097
        yoe == (doe - doe \div 1460 + doe \div 36524 - doe \div 146096) \div 365
        doy == doe - (365 * yoe + yoe \div 4 - yoe \div 100)
        mp == (5 * doy + 2) \div 153
        m == IF mp < 10 THEN mp + 3 ELSE mp - 9
    IN  [year |-> yoe + era * 400 + (IF m <= 2 THEN 1 ELSE 0),
         month |-> m,
         day |-> doy - (153 * mp + 2) \div 5 + 1]

\* datetime.isoformat() of an aware UTC datetime: microseconds are written
\* only when they are not zero
IsoFormat(date, hour, ms) ==
    Pad2(date.year \div 100) \o Pad2(date.year % 100) \o <<"-">> \o Pad2(date.month) \o <<"-">> \o Pad2(date.day)
    \o <<"T">> \o Pad2(hour) \o <<":">> \o Pad2(ms \div 60000)
    \o <<":">> \o Pad2((ms % 60000) \div 1000)
    \o (IF ms % 1000 = 0 THEN <<>>
        ELSE <<".">> \o Pad2((ms % 1000) \div 10) \o Pad2(((ms % 1000) % 10) * 10) \o Pad2(0))
    \o <<"+00:00">>

\* datetime.fromtimestamp raises when the year leaves datetime.MINYEAR (1) ..
\* datetime.MAXYEAR (9999); then isoformat() and replace("+00:00", "Z")
FromTimestamp(date, hour, ms) ==
    IF date.year < 1 \/ date.year > 9999 THEN Raised
    ELSE Url([i \in 1..Len(IsoFormat(date, hour, ms)) |->
                 IF IsoFormat(date, hour, ms)[i] = "+00:00" THEN "Z"
                 ELSE IsoFormat(date, hour, ms)[i]])

\* ProthomAloClient._format_publish_time: [raised, url], url holding the text;
\* isinstance(x, (int, float)) is true of a bool
_format_publish_time(raw_timestamp) ==
    IF raw_timestamp.kind \in {"int", "float", "bool"}
    THEN FromTimestamp(CivilFromDays(raw_timestamp.hours \div 24),
                       raw_timestamp.hours % 24, raw_timestamp.ms)
    ELSE Url(<<>>)

----------------------------------------------------------------------------
(* Inputs of the image computations *)

eMed == Https("tds-images.thedailystar.net", <<"/", "medium_", "a.jpg">>) \o <<" ", "1x">>
eBig == Https("tds-images.thedailystar.net", <<"/", "big_", "b.jpg">>)
eBn == Https("tds-images-bn.thedailystar.net", <<"/", "logo.png">>)
eAuth == Https("tds-images.thedailystar.net", <<"/", "author", "/", "c.jpg">>)
eComma == <<",", " ">> \o Https("tds-images.thedailystar.net", <<"/", "medium_", "g.jpg">>)

Source(srcset) == Elem(srcset, None, None, FALSE)
Img(srcset, lazy) == Elem(srcset, None, None, lazy)

Picture(sources, imgs) ==
    [sources |-> sources, imgs |-> imgs,
     inGallery |-> \E i \in 1..Len(imgs) : imgs[i].lazy]

PictureSet ==
    {Picture(ss, is) :
        ss \in {<<>>, <<Source(eMed)>>, <<Source(eBig)>>, <<Source(eBn)>>, <<Source(eComma)>>},
        is \in {<<>>, <<Img(eBig, FALSE)>>,
                <<Img(<<"images", "/", "f.jpg", ",", " ", "2x">>, TRUE)>>,
                <<Img(Https("TDS-IMAGES-BN.THEDAILYSTAR.NET", <<"/", "logo.png">>), TRUE)>>}}
    \cup {Picture(<<Source(eBn), Source(eMed)>>, <<>>),
          Picture(<<Source(eMed), Source(eBig)>>, <<>>),
          Picture(<<Source(eAuth)>>, <<>>),
          Picture(<<Source(eAuth), Source(eMed)>>, <<>>),
          Picture(<<Source(eMed \o <<",", " ">> \o eBn)>>, <<>>),
          Picture(<<Elem(None, eBig, None, FALSE)>>, <<>>)}

SeqsUpTo(S, n) == UNION {[1..k -> S] : k \in 0..n}

NoHero == [present |-> FALSE, data_src |-> None]
Hero(data_src) == [present |-> TRUE, data_src |-> data_src]

HeroSet ==
    {NoHero, Hero(None), Hero(<<" ">>), Hero(eBig), Hero(eBn),
     Hero(<<" ", "images", "/", "h.jpg">>), Hero(<<"/", "/", "cdn.example.com", "/", "i.jpg">>)}

Document(hero, pictures) == [hero |-> hero, pictures |-> pictures]

Ari(kind, path) == [kind |-> kind, path |-> path]

AriSet ==
    {Ari("nospan", <<>>), Ari("empty", <<>>), Ari("badjson", <<>>), Ari("nonobject", <<>>),
     Ari("nopath", <<>>), Ari("pathnum", <<>>), Ari("path", <<>>),
     Ari("path", <<"/", "/", "2024", "/", "a.jpg">>), Ari("path", <<"2024", "/", "b.jpg">>)}

\* 1700000000000 ms, the same with 123 ms more, the epoch, one second before
\* it, 2000-02-29, the first millisecond of year 10000, and values that are
\* not JSON numbers
StampSet ==
    {Stamp("int", 472222, 800000), Stamp("int", 472222, 800123), Stamp("int", 0, 0),
     Stamp("int", -1, 3599000), Stamp("int", 264384, 0), Stamp("int", 70389528, 0),
     Stamp("float", 472222, 800000), Stamp("bool", 0, 1), Stamp("bool", 0, 0),
     Stamp("str", 0, 0), Stamp("none", 0, 0)}

\* raw strings reaching a conversion to an absolute URL (never empty, and
\* without dot segments)
RawSet ==
    {eBig,
     <<"http", ":", "/", "/", "x.example", "/", "a.jpg">>,
     <<"http", "foo.jpg">>,
     <<"HTTP", ":", "/", "/", "x.example", "/", "a.jpg">>,
     <<"/", "/", "cdn.example.com", "/", "z.jpg">>,
     <<"/", "x", "/", "y.jpg">>,
     <<"images", "/", "f.jpg">>}

ImgInputs ==
    {[kind |-> "dailystar", doc |-> Document(h, ps)] :
        h \in HeroSet, ps \in SeqsUpTo(PictureSet, MaxPictures)}
    \cup {[kind |-> "ittefaq", ari |-> a] : a \in AriSet}
    \cup {[kind |-> "prothomalo", hero_key |-> k] :
              k \in {None, <<>>, <<"prothomalo", "/", "k.jpg">>}}
    \cup {[kind |-> "publish_time", raw_timestamp |-> t] : t \in StampSet}
    \cup {[kind |-> "resolve", raw |-> r, site |-> st] : r \in RawSet, st \in {"primary", "srcset"}}

ImgPending == [state |-> "pending", raised |-> FALSE, url |-> <<>>, path |-> "none"]

----------------------------------------------------------------------------
(* The image computations as a state machine *)

NoLimit == [given |-> FALSE, k |-> 0]

NotRun == [ran |-> FALSE, pc |-> "none", out |-> <<>>]

\* JSON null, and None where the code returns it for a missing summary
JsonNull == [json |-> "null"]

SumIdle ==
    /\ request = [source |-> <<>>, cache |-> <<>>]
    /\ collab = [cache_service |-> "none"]
    /\ cacheTable = {}
    /\ sumPc = "idle"
    /\ calls = <<>>
    /\ newsItems = <<>>
    /\ response = [status |-> 0, body |-> JsonNull]

PipeIdle ==
    /\ adapter = "none"
    /\ limit = NoLimit
    /\ upstream = [kind |-> "none"]
    /\ pc = "idle"
    /\ items = <<>>
    /\ out = <<>>
    /\ log = <<>>
    /\ firstRun = NotRun
    /\ replay = <<>>
    /\ net = <<>>

InitImg ==
    /\ PipeIdle
    /\ SumIdle
    /\ imgInput \in ImgInputs
    /\ imgResult = ImgPending
    /\ lxmlTruth \in {"len", "always"}

ExtractImageUrl ==
    /\ imgResult.state = "pending"
    /\ imgInput.kind = "dailystar"
    /\ imgResult' = extract_image_url(imgInput.doc, lxmlTruth)
    /\ UNCHANGED <<pipeVars, imgInput, lxmlTruth, sumVars>>

IttefaqExtractImage ==
    /\ imgResult.state = "pending"
    /\ imgInput.kind = "ittefaq"
    /\ imgResult' = ImgOut(FALSE, _extract_image(imgInput.ari), "ittefaq")
    /\ UNCHANGED <<pipeVars, imgInput, lxmlTruth, sumVars>>

ProthomAloImage ==
    /\ imgResult.state = "pending"
    /\ imgInput.kind = "prothomalo"
    /\ imgResult' = ImgOut(FALSE, HeroImageUrl(imgInput.hero_key), "prothomalo")
    /\ UNCHANGED <<pipeVars, imgInput, lxmlTruth, sumVars>>

\* one of the two conversions to an absolute URL on one raw string
ResolveUrl ==
    /\ imgResult.state = "pending"
    /\ imgInput.kind = "resolve"
    /\ imgResult' = ImgOut(FALSE,
                           IF imgInput.site = "primary"
                           THEN PrimaryToAbsolute(imgInput.raw)
                           ELSE SrcsetToAbsolute(imgInput.raw),
                           imgInput.site)
    /\ UNCHANGED <<pipeVars, imgInput, lxmlTruth, sumVars>>

\* the publish time of one story; text holds it and url stays empty
FormatPublishTime ==
    /\ imgResult.state = "pending"
    /\ imgInput.kind = "publish_time"
    /\ imgResult' = [state |-> "done",
                     raised |-> _format_publish_time(imgInput.raw_timestamp).raised,
                     url |-> <<>>,
                     path |-> "publish_time",
                     text |-> _format_publish_time(imgInput.raw_timestamp).url]
    /\ UNCHANGED <<pipeVars, imgInput, lxmlTruth, sumVars>>

NextImg ==
    \/ ExtractImageUrl
    \/ IttefaqExtractImage
    \/ ProthomAloImage
    \/ ResolveUrl
    \/ FormatPublishTime

SpecImg == InitImg /\ [][NextImg]_vars

----------------------------------------------------------------------------
(* Shared pieces of the three adapters *)

RECURSIVE JoinParagraphs(_)
\* "\n\n".join(p.get_text(strip=True) for p in paragraphs if p.get_text(strip=True))
JoinParagraphs(paragraphs) ==
    LET kept == SelectSeq(paragraphs, LAMBDA p : Strip(p) # <<>>)
    IN  IF kept = <<>> THEN <<>>
        ELSE IF Len(kept) = 1 THEN Strip(kept[1])
        ELSE Strip(kept[1]) \o <<"\n\n">> \o JoinParagraphs(Tail(kept))

\* "if limit: items = items[:limit]"
ApplyLimit(news_items, lim) ==
    IF lim.given /\ lim.k # 0
    THEN SubSeq(news_items, 1, IF lim.k < Len(news_items) THEN lim.k ELSE Len(news_items))
    ELSE news_items

Parsed(news_items) == [raised |-> FALSE, items |-> news_items]
ParseRaised == [raised |-> TRUE, items |-> <<>>]

----------------------------------------------------------------------------
(* Daily Star scraper *)

\* link.get("href", "")
HrefOf(link) == IF link.href = None THEN <<>> ELSE link.href

SkippedLink(link) == Strip(link.text) = <<>> \/ HrefOf(link) = <<>>

Heading(title, url) == [title |-> title, url |-> url]

\* fetch_news_headings without the seen_urls test, without urljoin, and
\* without the skip of empty titles and hrefs
ValidLinks(news_links) == SelectSeq(news_links, LAMBDA l : ~SkippedLink(l))

fetch_news_headings_NoDedup(news_links) ==
    [i \in 1..Len(ValidLinks(news_links)) |->
        Heading(Strip(ValidLinks(news_links)[i].text),
                urljoin(BASE_URL, HrefOf(ValidLinks(news_links)[i])))]

FirstWithHref(news_links) ==
    SelectSeq(Indices(news_links),
              LAMBDA i : \A j \in 1..(i - 1) : HrefOf(news_links[j]) # HrefOf(news_links[i]))

fetch_news_headings_NoJoin(news_links) ==
    [i \in 1..Len(FirstWithHref(ValidLinks(news_links))) |->
        Heading(Strip(ValidLinks(news_links)[FirstWithHref(ValidLinks(news_links))[i]].text),
                HrefOf(ValidLinks(news_links)[FirstWithHref(ValidLinks(news_links))[i]]))]

FirstWithUrl(news_links) ==
    SelectSeq(Indices(news_links),
              LAMBDA i : \A j \in 1..(i - 1) :
                  urljoin(BASE_URL, HrefOf(news_links[j])) # urljoin(BASE_URL, HrefOf(news_links[i])))

fetch_news_headings_KeepEmpty(news_links) ==
    [i \in 1..Len(FirstWithUrl(news_links)) |->
        Heading(Strip(news_links[FirstWithUrl(news_links)[i]].text),
                urljoin(BASE_URL, HrefOf(news_links[FirstWithUrl(news_links)[i]])))]

RECURSIVE HeadingsLoop(_, _, _)
\* the loop over news_links with its news_items and seen_urls
HeadingsLoop(news_links, news_items, seen_urls) ==
    IF news_links = <<>> THEN news_items
    ELSE LET link == Head(news_links)
             href == HrefOf(link)
             title == Strip(link.text)
             full_url == urljoin(BASE_URL, href)
         IN  IF title = <<>> \/ href = <<>>
             THEN HeadingsLoop(Tail(news_links), news_items, seen_urls)
             ELSE IF full_url \notin seen_urls
             THEN HeadingsLoop(Tail(news_links), Append(news_items, Heading(title, full_url)),
                               seen_urls \cup {full_url})
             ELSE HeadingsLoop(Tail(news_links), news_items, seen_urls)

\* fetch_news_headings with a seen_urls that outlives the invocation
fetch_news_headings_SeenKept(news_links) ==
    HeadingsLoop(news_links, <<>>, {firstRun.out[i].url : i \in 1..Len(firstRun.out)})

fetch_news_headings(news_links) == HeadingsLoop(news_links, <<>>, {})

DetailFail == [kind |-> "fail"]

ERROR_PREFIX == <<"Error fetching article: ">>

\* the fields read from a fetched article page
ParsedDetails(resp, image) ==
    IF image.raised THEN [raised |-> TRUE, reason |-> <<"Error parsing article: ">>]
    ELSE [raised |-> FALSE,
          heading |-> Strip(resp.heading),
          date_time |-> Strip(resp.date_time),
          image |-> image.url,
          news_body_text_full |-> JoinParagraphs(resp.paragraphs)]

\* DailyStarScraper.fetch_article_details on the answer to the article request
fetch_article_details(resp, mode) ==
    IF resp.kind = "fail" THEN [raised |-> TRUE, reason |-> <<"Failed to fetch article: ">>]
    ELSE ParsedDetails(resp, extract_image_url(resp.doc, mode))

\* one element of articles_with_details: the try/except around one item
ArticleOf(item, article_details) ==
    IF article_details.raised
    THEN [title |-> item.title, url |-> item.url, heading |-> <<>>, date_time |-> <<>>,
          image |-> <<>>, news_body_text_full |-> ERROR_PREFIX \o article_details.reason]
    ELSE [title |-> item.title, url |-> item.url,
          heading |-> article_details.heading,
          date_time |-> article_details.date_time,
          image |-> article_details.image,
          news_body_text_full |-> article_details.news_body_text_full]

DailyStarArticle(item, resp, mode) == ArticleOf(item, fetch_article_details(resp, mode))

DailyStarOutcome(resp, mode) == IF fetch_article_details(resp, mode).raised THEN "fail" ELSE "ok"

PutFailedFirst(articles, article) ==
    IF StartsWith(article.news_body_text_full, ERROR_PREFIX)
    THEN <<article>> \o articles
    ELSE Append(articles, article)

\* DailyStarCollect putting a degraded article first
DailyStarCollect_FailedFirst(articles, item, resp, mode) ==
    PutFailedFirst(articles, DailyStarArticle(item, resp, mode))

\* articles_with_details.append(...) on either branch
DailyStarCollect(articles, item, resp, mode) ==
    Append(articles, DailyStarArticle(item, resp, mode))

----------------------------------------------------------------------------
(* Ittefaq client *)

\* IttefaqClient._parse_html over the div.each entries of the html field
ParseDiv(div) ==
    LET title == IF div.title_elem THEN Strip(div.text) ELSE <<>>
        link_raw == IF div.title_elem THEN HrefOf(div) ELSE <<>>
        link == IF StartsWith(link_raw, SLASH2) THEN HTTPS_COLON \o link_raw ELSE link_raw
    IN  [title |-> title,
         link |-> link,
         image |-> _extract_image(div.ari),
         summary |-> Strip(div.summary),
         category |-> Strip(div.category),
         time |-> IF Truthy(div.data_published) THEN div.data_published ELSE Strip(div.time_text),
         news_body_text_full |-> <<>>]

_parse_html(news_divs) ==
    LET parsed == [i \in 1..Len(news_divs) |-> ParseDiv(news_divs[i])]
    IN  SelectSeq(parsed, LAMBDA it : it.title # <<>>)

\* Ittefaq_fetch_article_body leaving an error note after a failed fetch
Ittefaq_fetch_article_body_Placeholder(article_url, resp) ==
    IF article_url = <<>> THEN <<>>
    ELSE IF resp.kind = "fail" THEN ERROR_PREFIX
    ELSE IF resp.has_body THEN JoinParagraphs(resp.paragraphs)
    ELSE <<>>

\* IttefaqClient._fetch_article_body
Ittefaq_fetch_article_body(article_url, resp) ==
    IF article_url = <<>> THEN <<>>
    ELSE IF resp.kind = "fail" THEN <<>>
    ELSE IF resp.has_body THEN JoinParagraphs(resp.paragraphs)
    ELSE <<>>

BodyOutcome(article_url, resp) ==
    IF article_url = <<>> THEN "nocall"
    ELSE IF resp.kind = "fail" THEN "fail"
    ELSE "ok"

----------------------------------------------------------------------------
(* Prothom Alo client *)

\* section_name of one story; sections.kind: "missing", "emptylist",
\* "firstdict" (a list whose first element is an object with name sections.name),
\* "firstnondict", "mapping" (a non-empty object where the list is expected:
\* sections[0] raises KeyError)
SectionName(sections) ==
    LET section_name == IF sections.kind = "firstdict" THEN sections.name ELSE <<"General">>
    IN  IF Truthy(section_name) THEN section_name ELSE <<"General">>

OrEmpty(v) == IF Truthy(v) THEN v ELSE <<>>

TransformStory(story) ==
    [news_header |-> OrEmpty(story.headline),
     image_url |-> HeroImageUrl(story.hero_key),
     publish_time |-> _format_publish_time(story.published_at).url,
     section |-> SectionName(story.sections),
     summary |-> story.summary,
     article_url |-> OrEmpty(story.url),
     news_body_text_full |-> <<>>]

\* ProthomAloClient._transform_items over payload["items"]
_transform_items(payload_items) ==
    LET stories == SelectSeq(payload_items, LAMBDA it : it.kind = "story")
    IN  IF \E i \in 1..Len(stories) :
              \/ stories[i].sections.kind = "mapping"
              \/ _format_publish_time(stories[i].published_at).raised
        THEN ParseRaised
        ELSE Parsed([i \in 1..Len(stories) |-> TransformStory(stories[i])])

\* ProthomAloClient._fetch_article_body
ProthomAlo_fetch_article_body(article_url, resp) ==
    IF article_url = <<>> THEN <<>>
    ELSE IF resp.kind = "fail" THEN <<>>
    ELSE JoinParagraphs(resp.paragraphs)

----------------------------------------------------------------------------
(* Upstream answers *)

Link(text, href) == [text |-> text, href |-> href]

LinkSet ==
    {Link(<<"T1">>, <<"/", "a">>),
     Link(<<"T2">>, Https("www.thedailystar.net", <<"/", "a">>)),
     Link(<<" ", "T3", " ">>, <<"b">>),
     Link(<<" ">>, <<"/", "c">>),
     Link(<<"T5">>, None),
     Link(<<"T6">>, <<"/", "/", "www.thedailystar.net", "/", "a">>)}

Page(heading, date_time, doc, paragraphs) ==
    [kind |-> "page", heading |-> heading, date_time |-> date_time, doc |-> doc,
     paragraphs |-> paragraphs]

DailyStarResponses ==
    {DetailFail,
     Page(<<"H1">>, <<"D1">>, Document(Hero(<<"/", "images", "/", "h.jpg">>), <<>>),
          <<<<"p1">>, <<" ">>, <<" ", "p2">>>>),
     Page(<<>>, <<>>, Document(NoHero, <<Picture(<<Source(eComma)>>, <<>>)>>), <<>>)}

Div(title_elem, text, href, ari, summary, category, data_published, time_text) ==
    [title_elem |-> title_elem, text |-> text, href |-> href, ari |-> ari,
     summary |-> summary, category |-> category, data_published |-> data_published,
     time_text |-> time_text]

DivSet ==
    {Div(TRUE, <<"I1">>, <<"/", "/", "www.ittefaq.com.bd", "/", "a">>,
         Ari("path", <<"/", "2024", "/", "a.jpg">>), <<"S1">>, <<"C1">>, <<"2024-01-01">>, <<>>),
     Div(TRUE, <<"I2">>, <<"/", "b">>, Ari("badjson", <<>>), <<>>, <<>>, None, <<"1h">>),
     Div(FALSE, <<>>, None, Ari("nospan", <<>>), <<"S3">>, <<>>, None, <<>>),
     Div(TRUE, <<"I4">>, None, Ari("nopath", <<>>), <<>>, <<>>, None, <<>>),
     Div(TRUE, <<"I5">>, Https("www.ittefaq.com.bd", <<"/", "a">>), Ari("nonobject", <<>>), <<>>, <<>>, None, <<>>),
     Div(TRUE, <<" ">>, Https("www.ittefaq.com.bd", <<"/", "c">>), Ari("empty", <<>>), <<>>, <<>>, None, <<>>)}

BodyPage(has_body, paragraphs) ==
    [kind |-> "page", has_body |-> has_body, paragraphs |-> paragraphs]

IttefaqResponses == {DetailFail, BodyPage(TRUE, <<<<"b1">>, <<"b2">>>>), BodyPage(FALSE, <<>>)}

Sections(kind, name) == [kind |-> kind, name |-> name]

Story(headline, url, hero_key, sections, summary, published_at) ==
    [kind |-> "story", headline |-> headline, url |-> url, hero_key |-> hero_key,
     sections |-> sections, summary |-> summary, published_at |-> published_at]

PayloadItemSet ==
    {Story(<<"P1">>, Https("www.prothomalo.com", <<"/", "a">>), <<"prothomalo", "/", "k.jpg">>,
           Sections("firstdict", <<"Sports">>), <<"s1">>, Stamp("int", 472222, 800000)),
     Story(<<"P2">>, Https("www.prothomalo.com", <<"/", "a">>), None, Sections("missing", None), None,
           Stamp("none", 0, 0)),
     [kind |-> "nondict"],
     [kind |-> "nostory"],
     Story(None, None, <<>>, Sections("emptylist", None), None, Stamp("str", 0, 0)),
     Story(<<"P6">>, Https("www.prothomalo.com", <<"/", "c">>), None, Sections("mapping", None), None,
           Stamp("none", 0, 0)),
     Story(<<"P7">>, Https("www.prothomalo.com", <<"/", "d">>), None, Sections("firstdict", <<>>), None,
           Stamp("int", 472222, 800123)),
     Story(<<"P8">>, Https("www.prothomalo.com", <<"/", "e">>), None, Sections("missing", None), None,
           Stamp("int", 70389528, 0))}

ProthomAloResponses == {DetailFail, BodyPage(TRUE, <<<<"c1">>>>), BodyPage(TRUE, <<>>)}

EntrySet(a) ==
    CASE a = "dailystar" -> LinkSet
      [] a = "ittefaq" -> DivSet
      [] a = "prothomalo" -> PayloadItemSet

\* answers of the listing endpoint that carry no listing: a transport failure,
\* a non-2xx status, and for the two JSON endpoints a body that is not JSON, a
\* JSON value that is not an object, and an object without the html/items field
BadKinds(a) ==
    IF a = "dailystar" THEN {"neterr", "status"}
    ELSE {"neterr", "status", "nonjson", "nonobject", "nofield"}

\* the answer to the discovery call: one of the above, or a listing
Upstreams(a) ==
    {[kind |-> k, listing |-> <<>>] : k \in BadKinds(a)}
    \cup {[kind |-> "ok", listing |-> l] : l \in SeqsUpTo(EntrySet(a), MaxItems)}

Limits == {NoLimit} \cup {[given |-> TRUE, k |-> n] : n \in 0..MaxLimit}

----------------------------------------------------------------------------
(* fetchLatest as a state machine: one discovery call, then one detail or  *)
(* body call per item                                                      *)

ImgIdle == [kind |-> "none"]

Init ==
    /\ adapter \in {"dailystar", "ittefaq", "prothomalo"}
    /\ limit \in Limits
    /\ upstream \in Upstreams(adapter)
    /\ pc = "start"
    /\ items = <<>>
    /\ out = <<>>
    /\ log = <<>>
    /\ firstRun = NotRun
    /\ replay = <<>>
    /\ net = <<>>
    /\ imgInput = ImgIdle
    /\ imgResult = ImgPending
    /\ lxmlTruth \in (IF adapter = "dailystar" THEN {"len", "always"} ELSE {"len"})
    /\ SumIdle

\* what discovery yields before the limit is applied
Discovery(a, listing) ==
    CASE a = "dailystar" -> Parsed(fetch_news_headings(listing))
      [] a = "ittefaq" -> Parsed(_parse_html(listing))
      [] a = "prothomalo" -> _transform_items(listing)

\* DiscoveryCall taking a body that is not JSON for an empty listing
DiscoveryCall_NonJsonEmpty(a, up) ==
    IF up.kind = "ok" THEN Discovery(a, up.listing)
    ELSE IF up.kind \in {"neterr", "status"} THEN ParseRaised
    ELSE IF a = "ittefaq" /\ up.kind = "nonobject" THEN ParseRaised
    ELSE Parsed(<<>>)

\* the discovery call on the answer of the listing endpoint: get,
\* raise_for_status and response.json() raise; payload.get raises on a JSON
\* value that is not an object (Ittefaq); a missing html field returns [] and
\* a payload without items, or not an object, transforms to [] (Prothom Alo)
DiscoveryCall(a, up) ==
    IF up.kind = "ok" THEN Discovery(a, up.listing)
    ELSE IF up.kind \in {"neterr", "status", "nonjson"} THEN ParseRaised
    ELSE IF a = "ittefaq" /\ up.kind = "nonobject" THEN ParseRaised
    ELSE Parsed(<<>>)

\* Prothom Alo sends the limit upstream and does not cut the answer
Truncated(a, news_items, lim) ==
    IF a = "prothomalo" THEN news_items ELSE ApplyLimit(news_items, lim)

\* the discovery call raised, or its items are cut to the limit
Discovered(a, d) ==
    IF d.raised
    THEN /\ pc' = "raised"
         /\ items' = items
    ELSE /\ pc' = "details"
         /\ items' = Truncated(a, d.items, limit)

Discover(a) ==
    /\ pc = "start"
    /\ adapter = a
    /\ Discovered(a, DiscoveryCall(a, upstream))
    /\ net' = <<[call |-> "discovery", url |-> <<>>]>>
    /\ UNCHANGED <<adapter, limit, upstream, out, log, firstRun, replay, imgVars, lxmlTruth, sumVars>>

DailyStarDiscover == Discover("dailystar")
IttefaqDiscover == Discover("ittefaq")
ProthomAloDiscover == Discover("prothomalo")

Pending == pc = "details" /\ Len(out) < Len(items)

\* the article request of one item asked twice
ArticleCall_Twice(a, issued, article_url) ==
    issued \o <<[call |-> "article", url |-> article_url],
                [call |-> "article", url |-> article_url]>>

\* the article request of one item: requests.get in the Daily Star scraper,
\* client.get in the two clients unless the item has no URL
ArticleCall(a, issued, article_url) ==
    IF a # "dailystar" /\ article_url = <<>> THEN issued
    ELSE Append(issued, [call |-> "article", url |-> article_url])

\* the answers the next article request can get: any of them in the first
\* invocation, the recorded one when the invocation is repeated
Answers(all) == IF firstRun.ran THEN {replay[Len(out) + 1]} ELSE all

Recorded(resp) == IF firstRun.ran THEN replay ELSE Append(replay, resp)

DailyStarDetail ==
    /\ Pending
    /\ adapter = "dailystar"
    /\ \E resp \in Answers(DailyStarResponses) :
          /\ out' = DailyStarCollect(out, items[Len(out) + 1], resp, lxmlTruth)
          /\ log' = Append(log, DailyStarOutcome(resp, lxmlTruth))
          /\ replay' = Recorded(resp)
    /\ net' = ArticleCall(adapter, net, items[Len(out) + 1].url)
    /\ UNCHANGED <<adapter, limit, upstream, pc, items, firstRun, imgVars, lxmlTruth, sumVars>>

IttefaqBody ==
    /\ Pending
    /\ adapter = "ittefaq"
    /\ \E resp \in Answers(IttefaqResponses) :
          LET item == items[Len(out) + 1]
          IN  /\ out' = Append(out, [item EXCEPT !.news_body_text_full =
                                        Ittefaq_fetch_article_body(item.link, resp)])
              /\ log' = Append(log, BodyOutcome(item.link, resp))
              /\ replay' = Recorded(resp)
    /\ net' = ArticleCall(adapter, net, items[Len(out) + 1].link)
    /\ UNCHANGED <<adapter, limit, upstream, pc, items, firstRun, imgVars, lxmlTruth, sumVars>>

ProthomAloBody ==
    /\ Pending
    /\ adapter = "prothomalo"
    /\ \E resp \in Answers(ProthomAloResponses) :
          LET item == items[Len(out) + 1]
          IN  /\ out' = Append(out, [item EXCEPT !.news_body_text_full =
                                        ProthomAlo_fetch_article_body(item.article_url, resp)])
              /\ log' = Append(log, BodyOutcome(item.article_url, resp))
              /\ replay' = Recorded(resp)
    /\ net' = ArticleCall(adapter, net, items[Len(out) + 1].article_url)
    /\ UNCHANGED <<adapter, limit, upstream, pc, items, firstRun, imgVars, lxmlTruth, sumVars>>

Return ==
    /\ pc = "details"
    /\ Len(out) = Len(items)
    /\ pc' = "done"
    /\ UNCHANGED <<adapter, limit, upstream, items, out, log, firstRun, replay, net,
                   imgVars, lxmlTruth, sumVars>>

\* the same invocation is made once more against the same answers
RunAgain ==
    /\ pc \in {"done", "raised"}
    /\ ~firstRun.ran
    /\ firstRun' = [ran |-> TRUE, pc |-> pc, out |-> out]
    /\ pc' = "start"
    /\ items' = <<>>
    /\ out' = <<>>
    /\ log' = <<>>
    /\ net' = <<>>
    /\ UNCHANGED <<adapter, limit, upstream, replay, imgVars, lxmlTruth, sumVars>>

Next ==
    \/ DailyStarDiscover
    \/ IttefaqDiscover
    \/ ProthomAloDiscover
    \/ DailyStarDetail
    \/ IttefaqBody
    \/ ProthomAloBody
    \/ Return
    \/ RunAgain

Spec == Init /\ [][Next]_vars

----------------------------------------------------------------------------
(* The summary endpoint, GET /summary/{source}?cache=..., as a state       *)
(* machine: cache lookup, news fetch, AI generation with the cache write   *)

\* source_display_name of a lower-cased source; "" for a source the endpoint
\* does not know
DisplayName(source_lower) ==
    CASE source_lower = <<"daily", "-", "star">> -> "The Daily Star"
      [] source_lower = <<"prothom", "-", "alo">> -> "Prothom Alo"
      [] source_lower = <<"ittefaq">> -> "Ittefaq"
      [] OTHER -> ""

\* the cache is used by every request that does not say "off"
CacheEnabled_NotOff(cache) == Lower(cache) # <<"off">>

\* cache.lower() == "on"
CacheEnabled(cache) == Lower(cache) = <<"on">>

\* the path and query parameters of the requests
Requests ==
    [source : {<<"Daily", "-", "Star">>, <<"prothom", "-", "alo">>, <<"ITTEFAQ">>, <<"bbc">>},
     cache : {<<"on">>, <<"ON">>, <<"off">>, <<"true">>}]

\* how the collaborators of one request behave: construction of the two
\* services, the two cache queries, the UTC date each query reads from the
\* clock, the fetch of the source's adapter asked for 20 articles, and the
\* text the AI model answers with
Collaborators ==
    [cache_service : {"ok", "raises"},
     select : {"ok", "raises"},
     upsert : {"ok", "raises"},
     today : {2},
     today_at_save : {2, 3},
     fetch : {[raised |-> TRUE, articles |-> <<>>]}
             \cup {[raised |-> FALSE, articles |-> [i \in 1..n |-> i]] : n \in {0, 1, 15, 16, 20}},
     ai_service : {"ok", "raises"},
     generate : {"object", "object_with_metadata", "array", "raises"}]

\* the daily_summaries tables a request for source_lower may find: rows are
\* written by save_summary only, so they belong to known sources and hold a
\* response; date 2 is the day of the request
CacheTables(source_lower) ==
    {{},
     {[source |-> <<"ittefaq">>, date |-> 1,
       content |-> [story_of_day |-> "stored", categories |-> "stored"]],
      [source |-> IF source_lower = <<"ittefaq">> THEN <<"prothom", "-", "alo">>
                  ELSE <<"ittefaq">>,
       date |-> 2,
       content |-> [story_of_day |-> "of another source", categories |-> "stored"]]}}
    \cup (IF DisplayName(source_lower) = "" THEN {}
          ELSE {{[source |-> source_lower, date |-> 2,
                  content |-> [story_of_day |-> "stored", categories |-> "stored"]]},
                {[source |-> source_lower, date |-> 1,
                  content |-> [story_of_day |-> "of yesterday", categories |-> "stored"]],
                 [source |-> source_lower, date |-> 2,
                  content |-> [story_of_day |-> "stored", categories |-> "stored"]]}})

\* get_cached_summary selecting on the source alone
get_cached_summary_AnyDate(table, behaviour, source) ==
    IF behaviour.select = "raises" THEN JsonNull
    ELSE IF \A r \in table : r.source # source THEN JsonNull
    ELSE (CHOOSE r \in table : r.source = source).content

\* CacheService.get_cached_summary: the content column of the first selected
\* row; JsonNull stands for None, returned also when the query raises
get_cached_summary(table, behaviour, source) ==
    IF behaviour.select = "raises" THEN JsonNull
    ELSE IF \A r \in table : ~(r.source = source /\ r.date = behaviour.today) THEN JsonNull
    ELSE (CHOOSE r \in table : r.source = source /\ r.date = behaviour.today).content

\* save_summary writing under the date the lookup read
save_summary_LookupDate(table, behaviour, source, content) ==
    IF behaviour.upsert = "raises" THEN table
    ELSE {r \in table : ~(r.source = source /\ r.date = behaviour.today)}
         \cup {[source |-> source, date |-> behaviour.today, content |-> content]}

\* CacheService.save_summary: the table after the upsert on (source, date),
\* unchanged when the query raises
save_summary(table, behaviour, source, content) ==
    IF behaviour.upsert = "raises" THEN table
    ELSE {r \in table : ~(r.source = source /\ r.date = behaviour.today_at_save)}
         \cup {[source |-> source, date |-> behaviour.today_at_save, content |-> content]}

\* news_items[:15] taking the whole list
TopItems_All(news_items) == news_items

\* news_items[:15]
TopItems(news_items) ==
    IF Len(news_items) <= 15 THEN news_items ELSE SubSeq(news_items, 1, 15)

\* AISummaryService.generate_daily_summary on the model's answer: json.loads
\* returns whatever JSON value the text holds, a mapping or not
generate_daily_summary(answer, selected_items) ==
    IF selected_items = <<>>
    THEN [raised |-> FALSE, mapping |-> TRUE,
          data |-> [story_of_day |-> "No News Available", categories |-> "[]"]]
    ELSE CASE answer = "raises" -> [raised |-> TRUE, mapping |-> FALSE, data |-> JsonNull]
           [] answer = "array" -> [raised |-> FALSE, mapping |-> FALSE, data |-> JsonNull]
           [] answer = "object" ->
                [raised |-> FALSE, mapping |-> TRUE,
                 data |-> [story_of_day |-> "story", categories |-> "categories"]]
           [] answer = "object_with_metadata" ->
                [raised |-> FALSE, mapping |-> TRUE,
                 data |-> [story_of_day |-> "story", categories |-> "categories",
                           metadata |-> "of the model"]]

\* {**summary, "metadata": {...}}: the later key wins
WithMetadata(summary, display, top_items, news_items) ==
    [metadata |-> [source |-> display,
                   articles_analyzed |-> Len(top_items),
                   total_articles_fetched |-> Len(news_items)]] @@ summary

InitSum ==
    /\ PipeIdle
    /\ imgInput = ImgIdle
    /\ imgResult = ImgPending
    /\ lxmlTruth = "len"
    /\ request \in Requests
    /\ collab \in Collaborators
    /\ cacheTable \in CacheTables(Lower(request.source))
    /\ sumPc = "start"
    /\ calls = <<>>
    /\ newsItems = <<>>
    /\ response = [status |-> 0, body |-> JsonNull]

\* CacheLookup letting the exception of get_cache_service() end the request
CacheLookup_Fatal ==
    /\ sumPc = "start"
    /\ IF ~CacheEnabled(request.cache)
       THEN sumPc' = "fetch" /\ UNCHANGED <<calls, response>>
       ELSE IF collab.cache_service = "raises"
       THEN /\ sumPc' = "raised"
            /\ calls' = <<"get_cache_service">>
            /\ response' = [status |-> 500, body |-> [detail |-> "AI generation failed"]]
       ELSE \E cached_summary \in {get_cached_summary(cacheTable, collab, Lower(request.source))} :
               /\ calls' = <<"get_cache_service", "get_cached_summary">>
               /\ IF cached_summary # JsonNull
                  THEN sumPc' = "cached" /\ response' = [status |-> 200, body |-> cached_summary]
                  ELSE sumPc' = "fetch" /\ UNCHANGED response
    /\ UNCHANGED <<pipeVars, imgVars, lxmlTruth, request, collab, cacheTable, newsItems>>

\* if cache.lower() == "on": the lookup, whose exceptions are logged and
\* dropped; a summary that is not None is returned
CacheLookup ==
    /\ sumPc = "start"
    /\ IF ~CacheEnabled(request.cache)
       THEN sumPc' = "fetch" /\ UNCHANGED <<calls, response>>
       ELSE IF collab.cache_service = "raises"
       THEN sumPc' = "fetch" /\ calls' = <<"get_cache_service">> /\ UNCHANGED response
       ELSE \E cached_summary \in {get_cached_summary(cacheTable, collab, Lower(request.source))} :
               /\ calls' = <<"get_cache_service", "get_cached_summary">>
               /\ IF cached_summary # JsonNull
                  THEN sumPc' = "cached" /\ response' = [status |-> 200, body |-> cached_summary]
                  ELSE sumPc' = "fetch" /\ UNCHANGED response
    /\ UNCHANGED <<pipeVars, imgVars, lxmlTruth, request, collab, cacheTable, newsItems>>

\* the fetch block: 400 for an unknown source, 503 when the fetch raises or
\* gives no article
FetchNews ==
    /\ sumPc = "fetch"
    /\ IF DisplayName(Lower(request.source)) = ""
       THEN /\ sumPc' = "raised"
            /\ response' = [status |-> 400, body |-> [detail |-> "Invalid source"]]
            /\ UNCHANGED <<calls, newsItems>>
       ELSE /\ calls' = Append(calls, "fetch")
            /\ IF collab.fetch.raised \/ collab.fetch.articles = <<>>
               THEN /\ sumPc' = "raised"
                    /\ response' = [status |-> 503, body |-> [detail |-> "Failed to fetch news"]]
                    /\ UNCHANGED newsItems
               ELSE /\ sumPc' = "generate"
                    /\ newsItems' = collab.fetch.articles
                    /\ UNCHANGED response
    /\ UNCHANGED <<pipeVars, imgVars, lxmlTruth, request, collab, cacheTable>>

\* the AI block: every exception in it, the construction of the service and
\* the unpacking of a summary that is not a mapping included, becomes a 500;
\* otherwise the response is saved when the cache is on, and returned
GenerateSummary ==
    /\ sumPc = "generate"
    /\ IF collab.ai_service = "raises"
       THEN /\ sumPc' = "raised"
            /\ response' = [status |-> 500, body |-> [detail |-> "AI generation failed"]]
            /\ calls' = Append(calls, "get_ai_summary_service")
            /\ UNCHANGED cacheTable
       ELSE \E top_items \in {TopItems(newsItems)} :
            \E summary \in {generate_daily_summary(collab.generate, TopItems(top_items))} :
               IF summary.raised \/ ~summary.mapping
               THEN /\ sumPc' = "raised"
                    /\ response' = [status |-> 500, body |-> [detail |-> "AI generation failed"]]
                    /\ calls' = calls \o <<"get_ai_summary_service", "generate_daily_summary">>
                    /\ UNCHANGED cacheTable
               ELSE \E body \in {WithMetadata(summary.data, DisplayName(Lower(request.source)),
                                              top_items, newsItems)} :
                       /\ sumPc' = "returned"
                       /\ response' = [status |-> 200, body |-> body]
                       /\ IF ~CacheEnabled(request.cache)
                          THEN /\ calls' = calls \o <<"get_ai_summary_service",
                                                      "generate_daily_summary">>
                               /\ UNCHANGED cacheTable
                          ELSE IF collab.cache_service = "raises"
                          THEN /\ calls' = calls \o <<"get_ai_summary_service",
                                                      "generate_daily_summary",
                                                      "get_cache_service">>
                               /\ UNCHANGED cacheTable
                          ELSE /\ calls' = calls \o <<"get_ai_summary_service",
                                                      "generate_daily_summary",
                                                      "get_cache_service", "save_summary">>
                               /\ cacheTable' = save_summary(cacheTable, collab,
                                                             Lower(request.source), body)
    /\ UNCHANGED <<pipeVars, imgVars, lxmlTruth, request, collab, newsItems>>

NextSum ==
    \/ CacheLookup
    \/ FetchNews
    \/ GenerateSummary

SpecSum == InitSum /\ [][NextSum]_vars

----------------------------------------------------------------------------
(* Claims about fetchLatest *)

UrlOf(a, item) ==
    CASE a = "dailystar" -> item.url
      [] a = "ittefaq" -> item.link
      [] a = "prothomalo" -> item.article_url

TitleOf(a, item) ==
    CASE a = "dailystar" -> item.title
      [] a = "ittefaq" -> item.title
      [] a = "prothomalo" -> item.news_header

Emitted == pc \in {"details", "done"}

\* C1 (as claimed): in every adapter an item whose detail/body fetch fails is
\* returned with a non-empty error placeholder as its body text.
C1_FailedItemHasPlaceholder ==
    \A i \in 1..Len(out) : log[i] = "fail" => out[i].news_body_text_full # <<>>

\* C1 (amended): an item whose detail fetch fails is still returned; the Daily
\* Star scraper gives it a non-empty error placeholder as body text and empty
\* heading, date_time and image; the Ittefaq and Prothom Alo clients give it an
\* empty body text and leave its listing fields as discovered; every item
\* discovered after it is still returned.
C1_FailedItemDegraded ==
    /\ \A i \in 1..Len(out) : log[i] = "fail" =>
          IF adapter = "dailystar"
          THEN /\ StartsWith(out[i].news_body_text_full, ERROR_PREFIX)
               /\ out[i].heading = <<>> /\ out[i].date_time = <<>> /\ out[i].image = <<>>
               /\ out[i].title = items[i].title /\ out[i].url = items[i].url
          ELSE out[i] = [items[i] EXCEPT !.news_body_text_full = <<>>]
    /\ Len(log) = Len(out)
    /\ pc = "done" => Len(out) = Len(items)

\* C1 witness: an Ittefaq invocation returned after a failed body fetch of an
\* item that is followed by another item.
C1_Witness ==
    /\ pc = "done"
    /\ adapter = "ittefaq"
    /\ \E i \in 1..Len(out) : log[i] = "fail" /\ i < Len(out)

\* C2 (as claimed): fetchLatest raises only when the discovery call itself
\* fails, never because of one malformed item of the listing payload.
C2_RaisesOnlyOnDiscoveryFailure ==
    pc = "raised" => upstream.kind # "ok"

\* the listing fields of an article, which discovery fixed
SameListingFields(a, article, item) ==
    IF a = "dailystar"
    THEN article.title = item.title /\ article.url = item.url
    ELSE [article EXCEPT !.news_body_text_full = <<>>] = item

\* C3: on any mix of successful and failed detail fetches the returned list
\* holds the discovered items in discovery order: item i of the output is the
\* i-th discovered item after truncation.
C3_OutputInDiscoveryOrder ==
    /\ Len(out) <= Len(items)
    /\ \A i \in 1..Len(out) : SameListingFields(adapter, out[i], items[i])
    /\ pc = "done" => Len(out) = Len(items)

\* C3 witness: a returned list of two distinct items whose first detail fetch
\* failed and whose second succeeded.
C3_Witness ==
    /\ pc = "done"
    /\ Len(out) = 2
    /\ TitleOf(adapter, out[1]) # TitleOf(adapter, out[2])
    /\ log[1] = "fail"
    /\ log[2] = "ok"

NoDuplicateUrls(a, news_items) ==
    \A i, j \in 1..Len(news_items) :
        i # j => UrlOf(a, news_items[i]) # UrlOf(a, news_items[j])

FirstTitleFor(listing, url) ==
    LET hits == SelectSeq(listing,
                          LAMBDA l : ~SkippedLink(l) /\ urljoin(BASE_URL, HrefOf(l)) = url)
    IN  Strip(hits[1].text)

Smaller(a, b) == IF a < b THEN a ELSE b

\* C5 (as claimed): for every limit k that is provided the returned list has
\* length exactly min(k, available), available being the number of items the
\* upstream listing lets the adapter discover.
C5_LengthIsMinOfLimitAndAvailable ==
    (pc = "done" /\ limit.given) =>
        Len(out) = Smaller(limit.k, Len(Discovery(adapter, upstream.listing).items))

IsAbsoluteUrl(u) == u # <<>> /\ HasScheme(u)

C11_InvalidListingRaises ==
    upstream.kind # "ok" => pc \notin {"details", "done"}

\* C11 (amended): in every adapter an unreachable listing endpoint, a non-2xx
\* status and a body that is not JSON end fetchLatest with an error, and so
\* does a JSON value that is not an object in the Ittefaq client; an object
\* without the html field (Ittefaq), and a payload without items or not an
\* object (Prothom Alo), end it with the empty list and no error.
C11_UnreachableRaisesMissingFieldEmpty ==
    /\ upstream.kind \in {"neterr", "status", "nonjson"} => pc \in {"start", "raised"}
    /\ (adapter = "ittefaq" /\ upstream.kind = "nonobject") => pc \in {"start", "raised"}
    /\ (upstream.kind = "nofield" \/ (adapter = "prothomalo" /\ upstream.kind = "nonobject"))
          => /\ pc # "raised"
             /\ items = <<>>
             /\ out = <<>>

\* C11 witness: a Prothom Alo invocation ended with an error on a listing body
\* that is not JSON.
C11_Witness ==
    /\ adapter = "prothomalo"
    /\ upstream.kind = "nonjson"
    /\ pc = "raised"

TitledDivs(listing) ==
    SelectSeq(listing, LAMBDA div : div.title_elem /\ Strip(div.text) # <<>>)

\* the image the claim gives an entry: for a data-ari holding a path, the CDN
\* base, the dimensions, "/uploads/" and the path without leading slashes
ClaimedImage(ari) ==
    IF ari.kind = "path"
    THEN Https("cdn.ittefaqbd.com", <<"/", "contents", "/", "cache", "/", "images">>)
         \o <<"/", "1100x618x1", "/", "uploads", "/">>
         \o SubSeq(ari.path, SetMin({i \in 1..Len(ari.path) : ari.path[i] # "/"}), Len(ari.path))
    ELSE <<>>

\* C16: an Ittefaq listing entry whose data-ari is missing, empty, invalid
\* JSON, not an object or without a path is still emitted, with an empty
\* image, and the entries after it are still processed; an entry whose
\* data-ari holds a path gets the CDN base + "/" + dimensions + "/uploads/" +
\* the path without its leading slashes.
C16_BadAriGivesEmptyImage ==
    (adapter = "ittefaq" /\ upstream.kind = "ok" /\ pc \in {"details", "done", "raised"}) =>
        /\ pc # "raised"
        /\ Len(items) <= Len(TitledDivs(upstream.listing))
        /\ (limit.given /\ limit.k > 0) \/ Len(items) = Len(TitledDivs(upstream.listing))
        /\ \A i \in 1..Len(items) :
              /\ items[i].title = Strip(TitledDivs(upstream.listing)[i].text)
              /\ items[i].image = ClaimedImage(TitledDivs(upstream.listing)[i].ari)

\* C16 witness: an Ittefaq invocation returned two articles, the first from an
\* entry with invalid JSON in data-ari, the second with an image.
C16_Witness ==
    /\ adapter = "ittefaq"
    /\ pc = "done"
    /\ Len(upstream.listing) = 2
    /\ upstream.listing[1].ari.kind = "badjson"
    /\ Len(out) = 2
    /\ out[1].image = <<>>
    /\ out[2].image # <<>>

\* the story objects of a Prothom Alo listing, in payload order
StoriesOf(listing) == SelectSeq(listing, LAMBDA it : it.kind = "story")

\* C15 (as claimed): every story of a Prothom Alo listing payload is emitted
\* with a section that is never empty: the first section's name when that is
\* present and non-empty, and "General" when the sections value is missing,
\* empty, malformed, or its first name is missing or empty; its image URL is
\* the CDN base plus the hero image key, or empty when the key is absent.
\* (Listings holding a publish time that cannot be formatted are left aside.)
C15_SectionNeverEmpty ==
    (/\ adapter = "prothomalo"
     /\ upstream.kind = "ok"
     /\ pc \in {"details", "done", "raised"}
     /\ \A i \in 1..Len(upstream.listing) :
           upstream.listing[i].kind = "story"
              => ~_format_publish_time(upstream.listing[i].published_at).raised)
        => /\ pc # "raised"
           /\ Len(items) = Len(StoriesOf(upstream.listing))
           /\ \A i \in 1..Len(items) :
                 /\ items[i].section # <<>>
                 /\ items[i].section =
                       (IF /\ StoriesOf(upstream.listing)[i].sections.kind = "firstdict"
                           /\ Truthy(StoriesOf(upstream.listing)[i].sections.name)
                        THEN StoriesOf(upstream.listing)[i].sections.name
                        ELSE <<"General">>)
                 /\ items[i].image_url =
                       (IF Truthy(StoriesOf(upstream.listing)[i].hero_key)
                        THEN IMAGE_BASE_URL \o StoriesOf(upstream.listing)[i].hero_key
                        ELSE <<>>)

\* the positions of the processed items whose article was requested
Requested == SelectSeq(Indices(out), LAMBDA i : log[i] # "nocall")

\* C22: the network calls of one invocation are one discovery call, first,
\* then at most one article call per emitted item, in discovery order and for
\* that item's URL, failed calls not being repeated; no article call is made
\* for an item beyond the limit the Daily Star scraper and the Ittefaq client
\* cut the list to, and none after a failed discovery.
C22_CallSequence ==
    /\ pc \in {"idle", "start"} => net = <<>>
    /\ pc \in {"details", "done", "raised"} =>
          /\ Len(net) >= 1
          /\ net[1].call = "discovery"
          /\ \A k \in 2..Len(net) : net[k].call = "article"
          /\ Len(net) - 1 = Len(Requested)
          /\ \A k \in 1..Len(Requested) :
                net[k + 1].url = UrlOf(adapter, items[Requested[k]])
          /\ Len(net) - 1 <= Len(out)
    /\ (adapter \in {"dailystar", "ittefaq"} /\ limit.given /\ limit.k > 0) =>
          Len(net) <= 1 + limit.k
    /\ pc = "raised" => Len(net) = 1

\* C22 witness: the Ittefaq client, limited to one of two discovered items,
\* returned after the discovery call and one failed body call.
C22_Witness ==
    /\ pc = "done"
    /\ adapter = "ittefaq"
    /\ limit.given /\ limit.k = 1
    /\ upstream.kind = "ok"
    /\ Len(_parse_html(upstream.listing)) = 2
    /\ Len(net) = 2
    /\ log = <<"fail">>

----------------------------------------------------------------------------
(* Claims about the image selector *)

ImgDone(kind) == imgInput.kind = kind /\ imgResult.state = "done"

\* C6 (as claimed): the image selector never returns a URL on the site-logo
\* domain tds-images-bn.thedailystar.net, whichever path produced it.
C6_NeverSiteLogoUrl ==
    ImgDone("dailystar") => ~Contains(Lower(imgResult.url), BN_HOST)

PictureHasBig(p) == \E i \in 1..Len(AllElements(p)) : HasBigMarker(AllElements(p)[i])

\* the URL a candidate picture stands for
CandidateUrl(p) == _extract_url_from_element(CandidateElem(p).elem)

\* a document of exactly two kept candidates, one with a "/big_" marker and one
\* without, and no hero-gallery short-circuit
TwoCandidatesOneBig(doc) ==
    /\ ~(doc.hero.present /\ Truthy(doc.hero.data_src))
    /\ Len(doc.pictures) = 2
    /\ \A i \in 1..2 : IsCandidate(doc.pictures[i]) /\ ~CandidateUrl(doc.pictures[i]).raised
    /\ PictureHasBig(doc.pictures[1]) # PictureHasBig(doc.pictures[2])

BigPicture(doc) ==
    IF PictureHasBig(doc.pictures[1]) THEN doc.pictures[1] ELSE doc.pictures[2]

\* C7 (as claimed): given two image candidates, one containing a "/big_" marker
\* and one not, the selector returns the URL of the large-marker candidate
\* whichever of the two comes first in the document.
C7_BigMarkerWins ==
    (ImgDone("dailystar") /\ TwoCandidatesOneBig(imgInput.doc))
        => (~imgResult.raised /\ imgResult.url = CandidateUrl(BigPicture(imgInput.doc)).url)

\* C8: every image URL computed for an article's image field is either the
\* empty string or a string starting with "http".
C8_ImageUrlEmptyOrHttp ==
    imgResult.state = "done" => (imgResult.url = <<>> \/ StartsWith(imgResult.url, HTTP))

\* C8 witness: the selector returned a non-empty URL made from a raw expression
\* that was not absolute.
C8_Witness ==
    /\ ImgDone("dailystar")
    /\ imgResult.path = "primary"
    /\ ~StartsWith(Strip(imgInput.doc.hero.data_src), HTTP)
    /\ imgResult.url # <<>>

\* the resolution rules as the specification lists them, against the site's origin
ResolverRules(raw) ==
    IF StartsWith(raw, HTTP) THEN raw
    ELSE IF StartsWith(raw, SLASH2) THEN <<"http", "s", ":">> \o raw
    ELSE IF StartsWith(raw, SLASH) THEN BASE_URL \o raw
    ELSE BASE_URL \o <<"/">> \o raw

\* C12: at both resolution sites (hero data-src and srcset) a raw string that
\* starts with http is returned unchanged, one starting with "//" gets "https:"
\* prefixed, one starting with "/" is joined with the origin, and any other is
\* joined under origin + "/"; so "/x/y.jpg" gives origin + "/x/y.jpg",
\* "//cdn.example.com/z.jpg" gives "https://cdn.example.com/z.jpg", and the two
\* sites agree on every raw string.
C12_ResolutionFollowsRules ==
    ImgDone("resolve") =>
        /\ imgResult.url = ResolverRules(imgInput.raw)
        /\ imgInput.raw = <<"/", "x", "/", "y.jpg">>
              => imgResult.url = BASE_URL \o <<"/", "x", "/", "y.jpg">>
        /\ imgInput.raw = <<"/", "/", "cdn.example.com", "/", "z.jpg">>
              => imgResult.url = <<"http", "s", ":", "/", "/", "cdn.example.com", "/", "z.jpg">>

\* C12 witness: the srcset site resolved the protocol-relative raw string.
C12_Witness ==
    /\ ImgDone("resolve")
    /\ imgInput.site = "srcset"
    /\ imgInput.raw = <<"/", "/", "cdn.example.com", "/", "z.jpg">>

\* C14 (as claimed): the Prothom Alo timestamp formatter maps every integer
\* number of epoch milliseconds to the UTC ISO-8601 instant with a trailing "Z"
\* (1700000000000 gives "2023-11-14T22:13:20Z"), and a missing or non-numeric
\* value to the empty string.
C14_TimestampFormatted ==
    ImgDone("publish_time") =>
        /\ imgInput.raw_timestamp.kind = "int" =>
              /\ ~imgResult.raised
              /\ Len(imgResult.text) >= 20
              /\ imgResult.text[Len(imgResult.text)] = "Z"
        /\ imgInput.raw_timestamp = Stamp("int", 472222, 800000) =>
              imgResult.text = <<"2", "0", "2", "3", "-", "1", "1", "-", "1", "4", "T",
                                 "2", "2", ":", "1", "3", ":", "2", "0", "Z">>
        /\ imgInput.raw_timestamp.kind \in {"bool", "str", "none"} =>
              (~imgResult.raised /\ imgResult.text = <<>>)

\* the lower-cased size-hinted expressions of a picture
Expressions(p) ==
    {Lower(SrcsetOf(AllElements(p)[i])) :
        i \in {j \in 1..Len(AllElements(p)) : Truthy(SrcsetOf(AllElements(p)[j]))}}

\* flag-then-combine: every flag is set by any expression that shows its mark,
\* independently of the other flags
ReferenceClassification(exprs) ==
    LET valid == \E x \in exprs :
                    /\ Contains(x, CONTENT_HOST)
                    /\ ~Contains(x, AUTHOR)
                    /\ ~Contains(x, SMALL)
        siteLogo == \E x \in exprs : Contains(x, BN_HOST)
        authorOnly == \E x \in exprs :
                         /\ Contains(x, CONTENT_HOST)
                         /\ Contains(x, AUTHOR) \/ Contains(x, SMALL)
    IN  [is_article_image |-> valid,
         skip_image |-> siteLogo \/ (authorOnly /\ ~valid)]

\* C18 (as claimed): for every picture the scan classifies, the classifier
\* returns the flag-then-combine reference: valid iff some expression is on the
\* content-image domain without author and small-thumbnail marker, site logo
\* iff some expression is on the site-logo domain (also when that expression
\* contains the content-image domain too), skip = site logo or (author only
\* and not valid).
C18_ClassifierEqualsReference ==
    (ImgDone("dailystar") /\ imgResult.path # "primary") =>
        \A i \in 1..Len(imgInput.doc.pictures) :
            _is_valid_article_image(imgInput.doc.pictures[i])
                = ReferenceClassification(Expressions(imgInput.doc.pictures[i]))

\* C19 (as claimed): the scan discards a picture only when it is skip-worthy
\* and not valid, and keeps every other picture for selection, a picture that
\* is neither valid nor skip-worthy included.
C19_KeptUnlessSkipAndNotValid ==
    (ImgDone("dailystar") /\ imgResult.path # "primary") =>
        \A i \in 1..Len(imgInput.doc.pictures) :
            IsCandidate(imgInput.doc.pictures[i])
                <=> ~(/\ _is_valid_article_image(imgInput.doc.pictures[i]).skip_image
                      /\ ~_is_valid_article_image(imgInput.doc.pictures[i]).is_article_image)

\* C19: the scan keeps a picture for selection exactly when it is valid: a
\* valid picture is kept also when it is skip-worthy, a picture that is not
\* valid is dropped also when it is not skip-worthy, and the scan yields an
\* element only in a document that holds a valid picture.
C19_KeptIffValid ==
    (ImgDone("dailystar") /\ imgResult.path # "primary") =>
        /\ \A i \in 1..Len(imgInput.doc.pictures) :
              IsCandidate(imgInput.doc.pictures[i])
                  <=> \E x \in Expressions(imgInput.doc.pictures[i]) :
                         /\ Contains(x, CONTENT_HOST)
                         /\ ~Contains(x, AUTHOR)
                         /\ ~Contains(x, SMALL)
        /\ imgResult.path = "scan" =>
              \E i \in 1..Len(imgInput.doc.pictures) :
                  _is_valid_article_image(imgInput.doc.pictures[i]).is_article_image

\* C19 witness: a picture with an expression, neither valid nor skip-worthy,
\* was classified and not kept, and the scan yielded nothing.
C19_Witness ==
    /\ ImgDone("dailystar")
    /\ imgResult.path \notin {"primary", "scan"}
    /\ \E i \in 1..Len(imgInput.doc.pictures) :
          /\ Expressions(imgInput.doc.pictures[i]) # {}
          /\ ~_is_valid_article_image(imgInput.doc.pictures[i]).is_article_image
          /\ ~_is_valid_article_image(imgInput.doc.pictures[i]).skip_image
          /\ ~IsCandidate(imgInput.doc.pictures[i])

\* C20 (as claimed): with a hero-gallery element whose data-src is not empty
\* and not whitespace, the result is that element's resolved URL, or empty
\* when it is on the site-logo domain, whatever pictures the document holds;
\* without the element, or with an absent, empty or whitespace data-src, the
\* selector goes on to the scan of the pictures.
C20_HeroGalleryDecides ==
    ImgDone("dailystar") =>
        IF /\ imgInput.doc.hero.present
           /\ Truthy(imgInput.doc.hero.data_src)
           /\ Strip(imgInput.doc.hero.data_src) # <<>>
        THEN /\ ~imgResult.raised
             /\ imgResult.url =
                    (IF Contains(Lower(imgInput.doc.hero.data_src), BN_HOST) THEN <<>>
                     ELSE PrimaryToAbsolute(Strip(imgInput.doc.hero.data_src)))
        ELSE imgResult.path # "primary"

\* a kept candidate with an extractable expression
Extractable(p) == IsCandidate(p) /\ CandidateElem(p).found

\* picture i is visited before every other kept candidate with an expression:
\* lower priority number first, document order among equals
VisitedFirst(pictures, i) ==
    /\ Extractable(pictures[i])
    /\ \A j \in 1..Len(pictures) :
          (j # i /\ Extractable(pictures[j])) =>
              \/ _get_image_priority(pictures[i]) < _get_image_priority(pictures[j])
              \/ /\ _get_image_priority(pictures[i]) = _get_image_priority(pictures[j])
                 /\ i < j

\* C21 (as claimed): when the scan runs over a document with a kept candidate
\* that has an extractable expression, the selector returns the URL of the
\* first such candidate in ascending priority, ties in document order, taken
\* from its first source with an expression, or from its first img with one
\* when no source has any.
C21_FirstExtractableCandidateWins ==
    (/\ ImgDone("dailystar")
     /\ imgResult.path # "primary"
     /\ \E i \in 1..Len(imgInput.doc.pictures) : Extractable(imgInput.doc.pictures[i]))
        => \E i \in 1..Len(imgInput.doc.pictures) :
              /\ VisitedFirst(imgInput.doc.pictures, i)
              /\ ~imgResult.raised
              /\ imgResult.url = CandidateUrl(imgInput.doc.pictures[i]).url

----------------------------------------------------------------------------
(* Claims about the summary endpoint *)

\* C17: a summary request that is not answered from the cache ends in 400
\* when the source is none of daily-star, prothom-alo, ittefaq in any case
\* (and then neither the fetch nor the AI service was called), in 503 when the
\* fetch raised or gave no article, in 500 when the AI generation failed, and
\* otherwise in the summary with metadata whose articles_analyzed is the
\* smaller of 15 and total_articles_fetched.
C17_OutcomeByStage ==
    sumPc \in {"returned", "raised"} =>
        IF request.source = <<"bbc">>
        THEN /\ response.status = 400
             /\ \A i \in 1..Len(calls) :
                    calls[i] \notin {"fetch", "get_ai_summary_service", "generate_daily_summary"}
        ELSE IF collab.fetch.raised \/ Len(collab.fetch.articles) = 0
        THEN response.status = 503
        ELSE IF collab.ai_service = "raises" \/ collab.generate \in {"raises", "array"}
        THEN response.status = 500
        ELSE /\ sumPc = "returned"
             /\ response.status = 200
             /\ response.body.story_of_day = "story"
             /\ response.body.categories = "categories"
             /\ response.body.metadata.total_articles_fetched = Len(collab.fetch.articles)
             /\ response.body.metadata.articles_analyzed =
                    (IF Len(collab.fetch.articles) < 15 THEN Len(collab.fetch.articles) ELSE 15)

\* C17 witness: sixteen articles were fetched for ITTEFAQ and fifteen analysed.
C17_Witness ==
    /\ sumPc = "returned"
    /\ request.source = <<"ITTEFAQ">>
    /\ Len(newsItems) = 16
    /\ response.body.metadata.articles_analyzed = 15

\* the table holds a row for the lower-cased source of the request and the
\* UTC date of the lookup
HasEntry ==
    \E r \in cacheTable : r.source = Lower(request.source) /\ r.date = collab.today

CacheOn == request.cache \in {<<"on">>, <<"ON">>}

\* C23 (as claimed): with cache=on a request whose (lower-cased source, UTC
\* date) has an entry in the cache never goes on to the news fetch: it returns
\* the stored content without fetch, AI generation or cache write.
C23_EntryReturnsStored ==
    (CacheOn /\ HasEntry /\ sumPc \in {"cached", "fetch"}) =>
        /\ sumPc = "cached"
        /\ calls = <<"get_cache_service", "get_cached_summary">>

\* C23: with cache=on, a cache service that can be constructed and a lookup
\* that succeeds, a request whose (lower-cased source, UTC date) has an entry
\* returns exactly the stored content of that entry, and has called nothing
\* but the cache service and its lookup: no fetch, no AI generation, no save.
\* A request is answered from the cache in no other case: when the service
\* cannot be constructed or the lookup fails, the entry is not seen and the
\* request goes on to the news fetch.
C23_HitReturnsStored ==
    /\ (sumPc = "fetch" /\ CacheOn /\ HasEntry) =>
          (collab.cache_service = "raises" \/ collab.select = "raises")
    /\ sumPc = "cached" =>
          /\ CacheOn
          /\ collab.cache_service = "ok" /\ collab.select = "ok"
          /\ \E r \in cacheTable :
                /\ r.source = Lower(request.source)
                /\ r.date = collab.today
                /\ response = [status |-> 200, body |-> r.content]
          /\ calls = <<"get_cache_service", "get_cached_summary">>
          /\ newsItems = <<>>

\* C23 witness: a request for Daily-Star with cache=ON was answered with the
\* content stored for daily-star today, the table holding yesterday's too.
C23_Witness ==
    /\ sumPc = "cached"
    /\ request = [source |-> <<"Daily", "-", "Star">>, cache |-> <<"ON">>]
    /\ Cardinality(cacheTable) = 2
    /\ response.body.story_of_day = "stored"

\* C24: a request whose cache parameter is not "on" in any case makes no call
\* of the cache service, neither its construction nor a lookup nor a save, and
\* no step of it changes the stored entries, whatever its outcome.
C24_CacheOffNeverTouchesCache ==
    [][~CacheOn =>
          /\ cacheTable' = cacheTable
          /\ \A i \in 1..Len(calls') :
                calls'[i] \notin {"get_cache_service", "get_cached_summary", "save_summary"}]_vars

\* C24 witness: a request with cache=off returned a fresh summary while the
\* table held an entry for its source and date, and the save would have worked.
C24_Witness ==
    /\ sumPc = "returned"
    /\ request.cache = <<"off">>
    /\ HasEntry
    /\ collab.cache_service = "ok" /\ collab.upsert = "ok"
    /\ calls = <<"fetch", "get_ai_summary_service", "generate_daily_summary">>

\* C25: every step that changes the stored entries is the return of a 200
\* response after a fetch that gave articles and an AI generation that
\* succeeded, and it puts exactly the returned body under (lower-cased source,
\* UTC date at the save), replacing the row of that key and no other; so a
\* request that ends in 400, 503 or 500 leaves the entries as they were.
C25_WrittenOnlyOnSuccess ==
    [][cacheTable' # cacheTable =>
          /\ sumPc' = "returned"
          /\ response'.status = 200
          /\ newsItems # <<>>
          /\ \E i \in 1..Len(calls') : calls'[i] = "fetch"
          /\ \E i \in 1..Len(calls') : calls'[i] = "generate_daily_summary"
          /\ calls'[Len(calls')] = "save_summary"
          /\ cacheTable' =
                {r \in cacheTable : ~(/\ r.source = Lower(request.source)
                                      /\ r.date = collab.today_at_save)}
                \cup {[source |-> Lower(request.source), date |-> collab.today_at_save,
                       content |-> response'.body]}]_vars

\* C25 witness: a request for ITTEFAQ that crossed midnight UTC returned a
\* summary, stored under (ittefaq, the new date) beside the entry of the day
\* before.
C25_Witness ==
    /\ sumPc = "returned"
    /\ request.source = <<"ITTEFAQ">>
    /\ collab.today_at_save = 3
    /\ [source |-> <<"ittefaq">>, date |-> 3, content |-> response.body] \in cacheTable
    /\ Cardinality(cacheTable) = 2

\* what a request answers when it generates a fresh summary: a function of the
\* source, the fetch and the AI service alone
FreshOutcome(source, behaviour) ==
    IF DisplayName(Lower(source)) = ""
    THEN [status |-> 400, body |-> [detail |-> "Invalid source"]]
    ELSE IF behaviour.fetch.raised \/ behaviour.fetch.articles = <<>>
    THEN [status |-> 503, body |-> [detail |-> "Failed to fetch news"]]
    ELSE IF behaviour.ai_service = "raises" \/ behaviour.generate \in {"raises", "array"}
    THEN [status |-> 500, body |-> [detail |-> "AI generation failed"]]
    ELSE [status |-> 200,
          body |-> [story_of_day |-> "story", categories |-> "categories",
                    metadata |-> [source |-> DisplayName(Lower(source)),
                                  articles_analyzed |->
                                      IF Len(behaviour.fetch.articles) < 15
                                      THEN Len(behaviour.fetch.articles) ELSE 15,
                                  total_articles_fetched |-> Len(behaviour.fetch.articles)]]]

\* a cache failure the finished request has met: the service could not be
\* constructed, the lookup failed, or the save failed
CacheFailed ==
    /\ CacheOn
    /\ \/ collab.cache_service = "raises"
       \/ collab.select = "raises"
       \/ sumPc = "returned" /\ collab.upsert = "raises"

\* C26: a finished request with the cache off answers FreshOutcome, and a
\* finished request with the cache on that met a failure of the cache service
\* (construction, lookup or save) answers the same status and body.
C26_CacheFailureKeepsOutcome ==
    sumPc \in {"returned", "raised", "cached"} =>
        /\ ~CacheOn => response = FreshOutcome(request.source, collab)
        /\ CacheFailed =>
              (sumPc # "cached" /\ response = FreshOutcome(request.source, collab))

\* C26 witness: with cache=on and an entry stored for today, the cache service
\* could not be constructed, and the request returned a fresh summary.
C26_Witness ==
    /\ sumPc = "returned"
    /\ request.cache = <<"on">>
    /\ collab.cache_service = "raises"
    /\ HasEntry
    /\ calls[Len(calls)] = "get_cache_service"

====
